---- MODULE Spec2Model ----
(***************************************************************************)
(* QB_RAG: the question-generation pipeline.                               *)
(*   OutputParser.parse      src/QB_RAG/output_parser.py                   *)
(*   Ensember.from_discrete  src/QB_RAG/utils.py                           *)
(*   Converter.add_documents src/QB_RAG/converter.py                       *)
(* The LLM and the vector store are collaborators: the LLM answers every   *)
(* request with any completion of a small set, the store records what it   *)
(* is handed.  Three specifications share the definitions:                 *)
(*   SpecParse  one call of OutputParser.parse, any budget, any LLM        *)
(*   SpecEns    one call of Ensember.from_discrete on any verdict matrix   *)
(*   Spec       one run of Converter.add_documents                         *)
(***************************************************************************)
EXTENDS Integers, Sequences, FiniteSets, TLC

(* ------------------------------ bounds -------------------------------- *)
\* largest retry budget a caller passes
MaxRetries == 2
\* budgets range down to -NegRetries
NegRetries == 2
\* most candidate questions / verdicts in one completion
MaxQuestions == 3
\* largest reproducibility (samples of the answerability request)
MaxSamples == 3
\* stand-alone from_discrete: most lists, longest list
MaxLists == 3
MaxLen == 2

\* The interpreter's recursion limit, scaled down: parse calls itself once per
\* repair, and a frame deeper than this raises RecursionError.
RecursionLimit == MaxRetries + 2

VARIABLES
    \* OutputParser.parse
    frame,          \* the active call: schema, result, max_retries, status, value
    given,          \* max_retries of the outermost call
    seen,           \* the completions handed to parse so far, outermost first
    \* collaborators
    log,            \* the requests made to the LLM and the store, in order
    store,          \* the batches handed to vector_store.add_documents
    \* Converter.add_documents
    pc, max_retries, reproducibility, questions, answerablity_result,
    judgments, repairsOf, answerablity_list, document_list, ret, raised,
    \* Ensember.from_discrete
    inputs, heap, heap0, result

parseVars == <<frame, given, seen>>
convVars == <<pc, max_retries, reproducibility, questions, answerablity_result,
              judgments, repairsOf, answerablity_list, document_list, ret, raised>>
ensVars == <<inputs, heap, heap0, result>>
vars == <<parseVars, log, store, convVars, ensVars>>

(* ----------------------------- completions ---------------------------- *)
\* A completion text is what json.loads and the schema see of it:
\*   json   it is one JSON value (FALSE: prose, a broken fence, ...)
\*   root   "questions": an object with the key questions; "list": an array;
\*          "other": an object with some other key
\*   items  the strings, or the verdict objects, it holds
Text(j, r, it) == [json |-> j, root |-> r, items |-> it]

QuestionText(i) == <<"question", i>>
\* the verdict sample s gives for question i: its explanation names the sample
Verdict(s, i, rel) ==
    [question |-> QuestionText(i), explanation |-> <<"because", s>>, relevant |-> rel]
\* a verdict object without the key relevant
Unlabelled(s, i) == [question |-> QuestionText(i), explanation |-> <<"because", s>>]

RECURSIVE SeqsOver(_, _)
\* all sequences of length n whose i-th element is in S[i]
SeqsOver(S, n) ==
    IF n = 0 THEN {<<>>}
    ELSE {Append(p, x) : p \in SeqsOver(S, n - 1), x \in S[n]}

Prose == Text(FALSE, "other", <<>>)

\* completions of the question-generation request
QuestionTexts ==
    {Prose, Text(TRUE, "other", <<>>)}
    \cup {Text(TRUE, "questions", [i \in 1..n |-> QuestionText(i)]) : n \in 0..MaxQuestions}

\* verdict lists sample s may give for up to n questions
VerdictLists(s, n) ==
    UNION {SeqsOver([i \in 1..m |-> {Verdict(s, i, 0), Verdict(s, i, 1)}], m) : m \in 0..n}

\* completions of the answerability request, sample s
AnswerTexts(s, n) ==
    {Prose} \cup {Text(TRUE, "list", v) : v \in VerdictLists(s, n)}

\* ... and with an array whose only object lacks the key relevant
AnswerTextsWide(s, n) ==
    AnswerTexts(s, n) \cup {Text(TRUE, "list", <<Unlabelled(s, 1)>>)}

Count(seq, e) == Len(SelectSeq(seq, LAMBDA x : x = e))

Schemas == {"QuestionList", "QuestionsAnswerablity"}
VerdictKeys == {"question", "explanation", "relevant"}

(* ------------------------- OutputParser.parse ------------------------- *)
NoneValue == [none |-> TRUE, items |-> <<>>]
Model(items) == [none |-> FALSE, items |-> items]

\* super().parse(result) does not raise OutputParserException
Conforms(schema, text) ==
    /\ text.json
    /\ IF schema = "QuestionList"
       THEN text.root = "questions"
       ELSE /\ text.root = "list"
            /\ \A i \in DOMAIN text.items : VerdictKeys \subseteq DOMAIN text.items[i]

\* the pydantic object super().parse(result) returns
PydanticParse(schema, text) ==
    IF schema = "QuestionList"
    THEN Model(text.items)
    ELSE Model([i \in DOMAIN text.items |-> [k \in VerdictKeys |-> text.items[i][k]]])

Idle == [schema |-> "QuestionList", result |-> Prose, max_retries |-> 0,
         status |-> "idle", value |-> NoneValue]
Call(schema, text, budget) ==
    [schema |-> schema, result |-> text, max_retries |-> budget,
     status |-> "running", value |-> NoneValue]

\* a test that gives up with one retry left
MayRepairLate(budget) == budget > 1

\* `if max_retries != 0`
MayRepair(budget) == budget # 0

\* the budget of the recursive call
NextBudget(budget) == budget - 1

\* the completions the LLM may answer a repair request with: for the verdict
\* schema, those of the sample being parsed, about the questions asked (one
\* question when parse is called on its own)
RepairTexts(schema) ==
    IF schema = "QuestionList" THEN QuestionTexts
    ELSE AnswerTextsWide(Len(judgments) + 1, IF pc = "Idle" THEN 1 ELSE Len(questions))

\* try: output = super().parse(result) ... return output
ParseReturn ==
    /\ frame.status = "running"
    /\ Conforms(frame.schema, frame.result)
    /\ frame' = [frame EXCEPT !.status = "returned",
                              !.value = PydanticParse(frame.schema, frame.result)]
    /\ UNCHANGED <<given, seen, log, store, convVars, ensVars>>

\* except OutputParserException: if max_retries != 0: one repair request, then
\* self.parse(result, prompt, llm, max_retries - 1)
ParseRepair ==
    /\ frame.status = "running"
    /\ ~Conforms(frame.schema, frame.result)
    /\ MayRepair(frame.max_retries)
    /\ \E t \in RepairTexts(frame.schema) :
         /\ log' = Append(log, "repair")
         /\ seen' = Append(seen, t)
         /\ frame' = IF Len(seen) >= RecursionLimit
                     THEN [frame EXCEPT !.status = "RecursionError"]
                     ELSE [frame EXCEPT !.result = t,
                                        !.max_retries = NextBudget(frame.max_retries)]
    /\ UNCHANGED <<given, store, convVars, ensVars>>

\* else: logger.warning(...); return None
ParseGiveUp ==
    /\ frame.status = "running"
    /\ ~Conforms(frame.schema, frame.result)
    /\ ~MayRepair(frame.max_retries)
    /\ frame' = [frame EXCEPT !.status = "returned", !.value = NoneValue]
    /\ UNCHANGED <<given, seen, log, store, convVars, ensVars>>

\* a plain Python list, and a validated QuestionsAnswerablity (it has .root)
PlainList(items) == [kind |-> "list", items |-> items]
Validated(items) == [kind |-> "QuestionsAnswerablity", items |-> items]

ConvIdle ==
    /\ pc = "Idle" /\ max_retries = 0 /\ reproducibility = 0
    /\ questions = <<>> /\ answerablity_result = <<>> /\ judgments = <<>>
    /\ repairsOf = <<>> /\ answerablity_list = PlainList(<<>>) /\ document_list = <<>>
    /\ ret = -1 /\ raised = 0

EnsIdle ==
    /\ inputs = <<>> /\ heap = <<>> /\ heap0 = <<>>
    /\ result = [status |-> "idle", value |-> <<>>]

(* ------------------------ Ensember.from_discrete ---------------------- *)
\* A verdict is a dict object on the heap; a list holds references to dicts.
\* The dict created for entry i of list k has the reference <<k, i>>: every
\* entry of a matrix is an object of its own, as model_dump and a JSON literal
\* make them.
Ref(k, i) == <<k, i>>
RefsOf(values) == [k \in DOMAIN values |-> [i \in DOMAIN values[k] |-> Ref(k, i)]]
HeapOf(values) ==
    [r \in UNION {{Ref(k, i) : i \in DOMAIN values[k]} : k \in DOMAIN values}
       |-> values[r[1]][r[2]]]
Deref(h, refs) == [i \in DOMAIN refs |-> h[refs[i]]]

RECURSIVE CounterKeys(_)
\* Counter(verdicts): its keys, in the order the values were first seen
CounterKeys(verdicts) ==
    IF verdicts = <<>> THEN <<>>
    ELSE LET before == CounterKeys(SubSeq(verdicts, 1, Len(verdicts) - 1))
             v == verdicts[Len(verdicts)]
         IN  IF \E j \in DOMAIN before : before[j] = v THEN before ELSE Append(before, v)

\* a sort that puts a key before the keys counted as often as it
InsertAtUnstable(sorted, verdicts, c) ==
    Cardinality({j \in DOMAIN sorted : Count(verdicts, sorted[j]) > c}) + 1

\* where sorted(..., reverse=True) puts a key with count c into the keys sorted
\* so far: behind every key counted at least c times (the sort is stable)
InsertAt(sorted, verdicts, c) ==
    Cardinality({j \in DOMAIN sorted : Count(verdicts, sorted[j]) >= c}) + 1

InsertKey(sorted, verdicts, v) ==
    LET p == InsertAt(sorted, verdicts, Count(verdicts, v))
    IN  SubSeq(sorted, 1, p - 1) \o <<v>> \o SubSeq(sorted, p, Len(sorted))

RECURSIVE SortKeys(_, _)
SortKeys(keys, verdicts) ==
    IF keys = <<>> THEN <<>>
    ELSE InsertKey(SortKeys(SubSeq(keys, 1, Len(keys) - 1), verdicts),
                   verdicts, keys[Len(keys)])

\* list(dict(Counter(verdicts).most_common()).keys())
MostCommonKeys(verdicts) == SortKeys(CounterKeys(verdicts), verdicts)

\* verdicts = [inputs[k][i][attribute] for k in range(len(inputs))]
VerdictsAt(h, ins, attribute, i) ==
    [k \in DOMAIN ins |-> h[ins[k][i]][attribute]]

\* the value written into item[attribute]
Winner(verdicts) == MostCommonKeys(verdicts)[1]

RECURSIVE VoteFromLast(_, _, _, _)
\* a vote that builds the aggregated entry from the last sample's entry
VoteFromLast(h, ins, attribute, i) ==
    IF i > Len(ins[1]) THEN h
    ELSE LET item == ins[1][i]
             w == Winner(VerdictsAt(h, ins, attribute, i))
         IN  VoteFromLast([h EXCEPT ![item] = [h[ins[Len(ins)][i]] EXCEPT ![attribute] = w]],
                          ins, attribute, i + 1)

RECURSIVE VoteFrom(_, _, _, _)
\* for i in range(len(inputs[0])): the heap after the iterations i, i+1, ...
VoteFrom(h, ins, attribute, i) ==
    IF i > Len(ins[1]) THEN h
    ELSE LET item == ins[1][i]
             w == Winner(VerdictsAt(h, ins, attribute, i))
         IN  VoteFrom([h EXCEPT ![item][attribute] = w], ins, attribute, i + 1)

SameLengths(ins) == \A k \in DOMAIN ins : Len(ins[k]) = Len(ins[1])
AllCarry(h, ins, attribute) ==
    \A k \in DOMAIN ins : \A i \in DOMAIN ins[k] : attribute \in DOMAIN h[ins[k][i]]

Returned(refs, h) == [status |-> "returned", value |-> refs, heap |-> h]

\* a from_discrete that looks for the attribute in the first list only, and
\* meets the KeyError when it reads the verdicts
from_discrete_first_only(h, ins, attribute) ==
    IF ~SameLengths(ins) THEN Returned(ins[1], h)
    ELSE IF ~AllCarry(h, [k \in DOMAIN ins \cap {1} |-> ins[k]], attribute)
         THEN Returned(ins[1], h)
    ELSE IF Len(ins) = 1 THEN Returned(ins[1], h)
    ELSE IF Len(ins) = 0 THEN [status |-> "IndexError", value |-> <<>>, heap |-> h]
    ELSE IF ~AllCarry(h, ins, attribute) THEN [status |-> "KeyError", value |-> <<>>, heap |-> h]
    ELSE Returned(ins[1], VoteFrom(h, ins, attribute, 1))

\* from_discrete(inputs, attribute): what it returns (or the exception it
\* raises) and the heap it leaves.  inputs is a list, so the wrapping of a
\* non-list (lines 19-20) does nothing.
from_discrete(h, ins, attribute) ==
    IF ~SameLengths(ins) THEN Returned(ins[1], h)
    ELSE IF ~AllCarry(h, ins, attribute) THEN Returned(ins[1], h)
    ELSE IF Len(ins) = 1 THEN Returned(ins[1], h)
    ELSE IF Len(ins) = 0 THEN [status |-> "IndexError", value |-> <<>>, heap |-> h]
    ELSE Returned(ins[1], VoteFrom(h, ins, attribute, 1))

\* a caller's matrix: up to MaxLists lists of up to MaxLen labelled verdicts,
\* one of which, at most, has lost its label
Strip(values, r) ==
    [k \in DOMAIN values |->
        [i \in DOMAIN values[k] |->
            IF Ref(k, i) = r THEN Unlabelled(k, i) ELSE values[k][i]]]

InitEns ==
    /\ \E n \in 0..MaxLists :
         \E labelled \in SeqsOver([k \in 1..n |-> VerdictLists(k, MaxLen)], n) :
           \E r \in {Ref(0, 0)} \cup DOMAIN HeapOf(labelled) :
              LET values == Strip(labelled, r)
              IN  /\ inputs = RefsOf(values)
                  /\ heap = HeapOf(values)
                  /\ heap0 = HeapOf(values)
    /\ result = [status |-> "idle", value |-> <<>>]
    /\ frame = Idle /\ given = 0 /\ seen = <<>>
    /\ log = <<>> /\ store = <<>>
    /\ ConvIdle

\* ensembler.from_discrete(inputs, "relevant")
EnsCall ==
    /\ result.status = "idle"
    /\ LET r == from_discrete(heap, inputs, "relevant")
       IN  /\ result' = [status |-> r.status, value |-> r.value]
           /\ heap' = r.heap
    /\ UNCHANGED <<inputs, heap0, parseVars, log, store, convVars>>

NextEns == EnsCall

SpecEns == InitEns /\ [][NextEns]_vars

(* ------------------------ Converter.add_documents --------------------- *)
\* Variables of the run, by the name the code gives them:
\*   pc                   the stage the run is in; "Raised" after an exception
\*   raised               the line of converter.py that raised, 0 if none
\*   questions            the candidate questions (line 158)
\*   answerablity_result  the N completions of the answerability request (168)
\*   judgments            answerablity_list of lines 173-176: one parse result
\*                        per sample read so far, None included
\*   repairsOf            the repair requests each of those parses made
\*   answerablity_list    from line 178 on: the verdict matrix, then the
\*                        validated aggregate
\*   document_list, ret   the accepted items and the returned count
\* Failures of the LLM or the store themselves are not modelled.
Document == <<"document">>

\* the budget the configuration gives
ConfiguredBudget == max_retries

\* max_retries=1 of the answerability parses
JudgmentBudget == 1

\* Document(page_content=q.question, metadata={"context": document})
Doc(q) == [page_content |-> q.question, metadata |-> [context |-> Document]]

\* a filter that keeps every verdict
AcceptsAll(q) == q.relevant >= 0

\* if q.relevant == 1
Accepts(q) == q.relevant = 1

\* a store call per accepted item
OneByOne(docs) == [i \in DOMAIN docs |-> <<docs[i]>>]

\* self.vector_store.add_documents(document_list): the calls made
StoreCalls(docs) == <<docs>>

\* [que.dicts() for que in answerablity_list if que is not None]
Survivors(js) ==
    LET kept == SelectSeq(js, LAMBDA j : ~j.none)
    IN  [k \in DOMAIN kept |-> kept[k].items]

\* QuestionsAnswerablity.model_validate(list of dicts) succeeds
Validates(dicts) == \A i \in DOMAIN dicts : VerdictKeys \subseteq DOMAIN dicts[i]

Init ==
    /\ pc = "GeneratingQuestions"
    /\ max_retries \in 0..MaxRetries
    /\ reproducibility \in 1..MaxSamples
    /\ questions = <<>> /\ answerablity_result = <<>> /\ judgments = <<>>
    /\ repairsOf = <<>> /\ answerablity_list = PlainList(<<>>) /\ document_list = <<>>
    /\ ret = -1 /\ raised = 0
    /\ frame = Idle /\ given = 0 /\ seen = <<>>
    /\ log = <<>> /\ store = <<>>
    /\ EnsIdle

\* questions = self.llm.generate([que_gen_prompt]); the parse is entered
Generate ==
    /\ pc = "GeneratingQuestions"
    /\ \E t \in QuestionTexts :
         /\ frame' = Call("QuestionList", t, max_retries)
         /\ seen' = <<t>>
    /\ given' = max_retries
    /\ log' = Append(log, "generate")
    /\ pc' = "ParsingQuestions"
    /\ UNCHANGED <<store, max_retries, reproducibility, questions, answerablity_result,
                   judgments, repairsOf, answerablity_list, document_list, ret, raised,
                   ensVars>>

\* questions = [que for que in questions.dicts()["questions"]]: None has no
\* dicts, and the AttributeError leaves add_documents
QuestionsParsed ==
    /\ pc = "ParsingQuestions"
    /\ frame.status = "returned"
    /\ IF frame.value.none
       THEN /\ pc' = "Raised" /\ raised' = 158
            /\ questions' = questions
       ELSE /\ pc' = "JudgingAnswerability" /\ raised' = raised
            /\ questions' = frame.value.items
    /\ frame' = Idle
    /\ UNCHANGED <<given, seen, log, store, max_retries, reproducibility,
                   answerablity_result, judgments, repairsOf, answerablity_list,
                   document_list, ret, ensVars>>

\* answerablity_result = self.llm.generate([ans_prompt], n=self._reproducibility),
\* its texts taken in sample order; the parse of the first text is entered
JudgeAnswerability ==
    /\ pc = "JudgingAnswerability"
    /\ \E texts \in SeqsOver([s \in 1..reproducibility |-> AnswerTexts(s, Len(questions))],
                             reproducibility) :
         /\ answerablity_result' = texts
         /\ frame' = Call("QuestionsAnswerablity", texts[1], JudgmentBudget)
         /\ seen' = <<texts[1]>>
    /\ given' = JudgmentBudget
    /\ log' = Append(log, "judge")
    /\ pc' = "ParsingJudgments"
    /\ UNCHANGED <<store, max_retries, reproducibility, questions, judgments, repairsOf,
                   answerablity_list, document_list, ret, raised, ensVars>>

\* one element of the comprehension of lines 173-176 is done: the next text is
\* parsed, or, after the last, the None results are filtered out (178-180)
SampleParsed ==
    /\ pc = "ParsingJudgments"
    /\ frame.status = "returned"
    /\ judgments' = Append(judgments, frame.value)
    /\ repairsOf' = Append(repairsOf, Len(seen) - 1)
    /\ IF Len(judgments') < reproducibility
       THEN /\ frame' = Call("QuestionsAnswerablity",
                             answerablity_result[Len(judgments') + 1], JudgmentBudget)
            /\ seen' = <<answerablity_result[Len(judgments') + 1]>>
            /\ UNCHANGED <<pc, answerablity_list>>
       ELSE /\ frame' = Idle
            /\ seen' = <<>>
            /\ answerablity_list' = PlainList(Survivors(judgments'))
            /\ pc' = "Ensembling"
    /\ UNCHANGED <<given, log, store, max_retries, reproducibility, questions,
                   answerablity_result, document_list, ret, raised, ensVars>>

\* if answerablity_list: from_discrete(answerablity_list, "relevant"), then
\* QuestionsAnswerablity.model_validate
Ensemble ==
    /\ pc = "Ensembling"
    /\ IF answerablity_list.items # <<>>
       THEN LET matrix == answerablity_list.items
                r == from_discrete(HeapOf(matrix), RefsOf(matrix), "relevant")
            IN  IF r.status = "returned" /\ Validates(Deref(r.heap, r.value))
                THEN /\ answerablity_list' = Validated(Deref(r.heap, r.value))
                     /\ pc' = "Filtering" /\ raised' = raised
                ELSE /\ answerablity_list' = answerablity_list
                     /\ pc' = "Raised" /\ raised' = 183
       ELSE /\ pc' = "Filtering"
            /\ UNCHANGED <<answerablity_list, raised>>
    /\ UNCHANGED <<parseVars, log, store, max_retries, reproducibility, questions,
                   answerablity_result, judgments, repairsOf, document_list, ret, ensVars>>

\* for q in answerablity_list.root: a plain list has no root, and the
\* AttributeError leaves add_documents
Filter ==
    /\ pc = "Filtering"
    /\ IF answerablity_list.kind = "list"
       THEN /\ pc' = "Raised" /\ raised' = 192
            /\ document_list' = document_list
       ELSE /\ pc' = "Storing" /\ raised' = raised
            /\ document_list' =
                 LET kept == SelectSeq(answerablity_list.items, Accepts)
                 IN  [i \in DOMAIN kept |-> Doc(kept[i])]
    /\ UNCHANGED <<parseVars, log, store, max_retries, reproducibility, questions,
                   answerablity_result, judgments, repairsOf, answerablity_list, ret,
                   ensVars>>

\* self.vector_store.add_documents(document_list); return len(document_list)
Store ==
    /\ pc = "Storing"
    /\ store' = store \o StoreCalls(document_list)
    /\ log' = log \o [i \in DOMAIN StoreCalls(document_list) |-> "store"]
    /\ ret' = Len(document_list)
    /\ pc' = "Done"
    /\ UNCHANGED <<parseVars, max_retries, reproducibility, questions, answerablity_result,
                   judgments, repairsOf, answerablity_list, document_list, raised, ensVars>>

Next ==
    \/ Generate \/ ParseReturn \/ ParseRepair \/ ParseGiveUp \/ QuestionsParsed
    \/ JudgeAnswerability \/ SampleParsed \/ Ensemble \/ Filter \/ Store

Spec == Init /\ [][Next]_vars

\* a caller hands parse a completion and a budget
InitParse ==
    /\ \E schema \in Schemas, budget \in (0 - NegRetries)..MaxRetries :
         \E t \in (IF schema = "QuestionList" THEN QuestionTexts ELSE AnswerTextsWide(1, 1)) :
            /\ frame = Call(schema, t, budget)
            /\ given = budget
            /\ seen = <<t>>
    /\ log = <<>> /\ store = <<>>
    /\ ConvIdle /\ EnsIdle

NextParse == ParseReturn \/ ParseRepair \/ ParseGiveUp

SpecParse == InitParse /\ [][NextParse]_vars

(* ---------------------- claims on OutputParser.parse ------------------- *)
\* the repair requests the LLM has received
Repairs == Count(log, "repair")
Malformed(i) == ~Conforms(frame.schema, seen[i])
Max0(n) == IF n > 0 THEN n ELSE 0

\* C1: with a budget k >= 0, parse makes at most k repair requests; when it
\* returns after j requests, the completions before the j-th repaired one were
\* all malformed, and it returns either the structured value of the j-th (the
\* raw completion when j = 0), which is then well-formed, or None with j = k
\* and the last completion malformed too.
C1_RepairContract ==
    (pc = "Idle" /\ given >= 0) =>
        /\ Repairs <= given
        /\ Len(seen) = Repairs + 1
        /\ frame.status \in {"running", "returned"}
        /\ frame.status = "returned" =>
              /\ \A i \in 1..Repairs : Malformed(i)
              /\ IF frame.value.none
                 THEN Malformed(Repairs + 1) /\ Repairs = given
                 ELSE /\ ~Malformed(Repairs + 1)
                      /\ frame.value = PydanticParse(frame.schema, seen[Repairs + 1])

\* the second repaired completion of a budget of two is the first valid one
C1_Witness ==
    /\ pc = "Idle" /\ given = 2 /\ frame.status = "returned"
    /\ ~frame.value.none /\ Repairs = 2 /\ Len(frame.value.items) > 0

\* C2: for every budget, negative ones too, parse ends without exhausting the
\* stack, every repair lowers the budget by one, and the repair requests
\* never outnumber the budget (none at all for a budget below one).
C2_BoundedForEveryBudget ==
    pc = "Idle" =>
        /\ frame.status # "RecursionError"
        /\ frame.status = "running" => frame.max_retries = given - Repairs
        /\ Repairs <= Max0(given)

(* -------------------- claims on Ensember.from_discrete ---------------- *)
\* the matrix as the caller built it, and the values at position i
Before(k, i) == heap0[inputs[k][i]]
ColumnBefore(i) == [k \in DOMAIN inputs |-> Before(k, i).relevant]
Freq(vs, v) == Cardinality({k \in DOMAIN vs : vs[k] = v})
Voted ==
    /\ result.status = "returned" /\ Len(inputs) >= 2
    /\ SameLengths(inputs) /\ AllCarry(heap0, inputs, "relevant")
ShapeViolated ==
    Len(inputs) >= 1 /\ (~SameLengths(inputs) \/ ~AllCarry(heap0, inputs, "relevant"))

\* C6: on two or more equal-length lists that all carry the attribute, the
\* aggregated value at each index is one of the values the lists held there,
\* no value occurs there more often, and no value occurring as often was seen
\* in an earlier list; so <<1, 0, 1>> gives 1 and the tie <<1, 0>> gives 1.
C6_MajorityFirstSeen ==
    Voted =>
        \A i \in DOMAIN inputs[1] :
            LET vs == ColumnBefore(i)
                a == heap[result.value[i]].relevant
            IN  /\ \E k \in DOMAIN vs : vs[k] = a
                /\ \A k \in DOMAIN vs :
                      /\ Freq(vs, vs[k]) <= Freq(vs, a)
                      /\ Freq(vs, vs[k]) = Freq(vs, a) => \E j \in 1..k : vs[j] = a
                /\ vs = <<1, 0, 1>> => a = 1
                /\ vs = <<1, 0>> => a = 1

\* two lists of two verdicts, tied at both positions: the first list's win
C6_Witness ==
    /\ Voted /\ Len(inputs) = 2 /\ Len(inputs[1]) = 2
    /\ ColumnBefore(1) = <<1, 0>> /\ ColumnBefore(2) = <<0, 1>>
    /\ heap[result.value[1]].relevant = 1 /\ heap[result.value[2]].relevant = 0

\* C7: on lists of unequal length, or with an entry lacking the attribute,
\* from_discrete raises nothing and returns the first list, every dict as it
\* was.
C7_ShapeViolationReturnsFirst ==
    (ShapeViolated /\ result.status # "idle") =>
        /\ result.status = "returned"
        /\ result.value = inputs[1]
        /\ heap = heap0

\* equal lengths, the first list labelled throughout, a later entry not
C7_Witness ==
    /\ result.status = "returned" /\ Len(inputs) = 3 /\ Len(inputs[1]) = 2
    /\ SameLengths(inputs)
    /\ AllCarry(heap0, SubSeq(inputs, 1, 1), "relevant")
    /\ ~AllCarry(heap0, inputs, "relevant")
    /\ result.value = inputs[1]

\* C8: the result has one entry per entry of the first list, with the keys
\* of that entry and, but for the voting attribute, its values; of a single
\* list the result is that list.
C8_CarriesFirstSample ==
    result.status = "returned" =>
        /\ Len(result.value) = Len(inputs[1])
        /\ \A i \in DOMAIN inputs[1] :
              /\ DOMAIN heap[result.value[i]] = DOMAIN Before(1, i)
              /\ \A f \in DOMAIN Before(1, i) \ {"relevant"} :
                    heap[result.value[i]][f] = Before(1, i)[f]
        /\ Len(inputs) = 1 => Deref(heap, result.value) = Deref(heap0, inputs[1])

\* three lists outvote the first sample's label; its other fields stay
C8_Witness ==
    /\ Voted /\ Len(inputs) = 3 /\ Len(inputs[1]) = 1
    /\ ColumnBefore(1) = <<0, 1, 1>>
    /\ heap[result.value[1]] = Verdict(1, 1, 1)

(* ------------------- claims on Converter.add_documents ---------------- *)
Stages == <<"GeneratingQuestions", "ParsingQuestions", "JudgingAnswerability",
            "ParsingJudgments", "Ensembling", "Filtering", "Storing", "Done">>
StageOf(p) == CHOOSE n \in DOMAIN Stages : Stages[n] = p
\* the run is past the parsing of the judgments
JudgmentsRead == pc \in {"Ensembling", "Filtering", "Storing", "Done", "Raised"} /\ raised # 158

\* C3: when every answerability completion parses to None, the run raises
\* nothing and, once done, has returned 0 with no item accepted.
C3_NoSurvivorReturnsZero ==
    (JudgmentsRead /\ \A i \in DOMAIN judgments : judgments[i].none) =>
        /\ pc # "Raised"
        /\ pc = "Done" => (ret = 0 /\ document_list = <<>>)

\* C4: when the question completion and its max_retries repaired completions
\* are all malformed, so that parse returns None, the run raises nothing.
C4_NullQuestionsDropped ==
    (/\ pc \notin {"GeneratingQuestions", "ParsingQuestions"}
     /\ answerablity_result = <<>>
     /\ Len(seen) = max_retries + 1
     /\ \A i \in DOMAIN seen : ~Conforms("QuestionList", seen[i]))
    => pc # "Raised"

Labels(j) == [i \in DOMAIN j.items |-> j.items[i].relevant]
\* three questions, three samples that all parse: two label only the second
\* question 1, the third labels none
TwoOfThreeForSecond ==
    /\ Len(questions) = 3 /\ Len(judgments) = 3
    /\ \A k \in 1..3 : ~judgments[k].none
    /\ \E k \in 1..3 :
         /\ Labels(judgments[k]) = <<0, 0, 0>>
         /\ \A m \in 1..3 \ {k} : Labels(judgments[m]) = <<0, 1, 0>>

RECURSIVE Relevant(_)
\* the aggregated verdicts labelled 1, in verdict order
Relevant(agg) ==
    IF agg = <<>> THEN <<>>
    ELSE IF agg[1].relevant = 1 THEN <<agg[1]>> \o Relevant(Tail(agg))
    ELSE Relevant(Tail(agg))

\* C5: a run in which a verdict list survives parsing raises nothing, and
\* once it has returned it has handed the store, in one list, one item per
\* aggregated verdict labelled 1, in verdict order, with the verdict's
\* question as content and the document as context, and has returned their
\* number; two of three samples for the second of three questions accept it
\* alone.
C5_AcceptedAreTheRelevant ==
    /\ (JudgmentsRead /\ \E k \in DOMAIN judgments : ~judgments[k].none) => pc # "Raised"
    /\ pc = "Done" =>
        /\ \E k \in DOMAIN judgments : ~judgments[k].none
        /\ answerablity_list.kind = "QuestionsAnswerablity"
        /\ LET acc == Relevant(answerablity_list.items)
           IN  /\ store = << [i \in DOMAIN acc |->
                                 [page_content |-> acc[i].question,
                                  metadata |-> [context |-> Document]]] >>
               /\ ret = Len(acc)
        /\ TwoOfThreeForSecond =>
              /\ ret = 1
              /\ store[1][1].page_content = QuestionText(2)
              /\ store[1][1].metadata.context = Document

C5_Witness ==
    /\ pc = "Done" /\ TwoOfThreeForSecond /\ Labels(judgments[1]) = <<0, 0, 0>>
    /\ ret = 1 /\ Len(store[1]) = 1

RECURSIVE NotNone(_)
\* the parse results that are not None, in sample order
NotNone(js) ==
    IF js = <<>> THEN <<>>
    ELSE IF js[1].none THEN NotNone(Tail(js))
    ELSE <<js[1].items>> \o NotNone(Tail(js))

\* C9: whatever max_retries is configured, every answerability completion is
\* parsed with a budget of one: a well-formed one is taken as it is with no
\* repair request, a malformed one gets exactly one; all N are parsed, and
\* the matrix handed on holds the results that are not None, in sample order.
C9_JudgmentsParsedApart ==
    /\ pc = "ParsingJudgments" => (given = 1 /\ frame.max_retries \in {0, 1})
    /\ \A i \in DOMAIN judgments :
          LET raw == answerablity_result[i]
          IN  IF Conforms("QuestionsAnswerablity", raw)
              THEN /\ repairsOf[i] = 0
                   /\ judgments[i] = PydanticParse("QuestionsAnswerablity", raw)
              ELSE repairsOf[i] = 1
    /\ JudgmentsRead => Len(judgments) = reproducibility
    /\ pc = "Ensembling" =>
          (answerablity_list.kind = "list" /\ answerablity_list.items = NotNone(judgments))

\* the first sample is lost after its repair, the second is repaired, the
\* third is well-formed; the configured budget is two
C9_Witness ==
    /\ pc = "Ensembling" /\ reproducibility = 3 /\ max_retries = 2
    /\ judgments[1].none /\ ~judgments[2].none /\ ~judgments[3].none
    /\ repairsOf = <<1, 1, 0>>
    /\ Len(answerablity_list.items) = 2

\* a step of the run keeps the stage or moves to the next one (or raises),
\* and a repair request is made inside a parsing stage
StageStep ==
    /\ pc' # pc => (pc' = "Raised" \/ (pc # "Raised" /\ StageOf(pc') = StageOf(pc) + 1))
    /\ (pc' = pc /\ log' # log) =>
          (pc \in {"ParsingQuestions", "ParsingJudgments"} /\ log' = Append(log, "repair"))
\* the requests made so far, by stage
RequestsInOrder ==
    /\ Count(log, "generate") = (IF pc = "GeneratingQuestions" THEN 0 ELSE 1)
    /\ Count(log, "judge") = (IF answerablity_result = <<>> THEN 0 ELSE 1)
    /\ Count(log, "judge") = 1 => pc \notin {"GeneratingQuestions", "ParsingQuestions", "JudgingAnswerability"}
    /\ pc = "Done" => (/\ Count(log, "store") = 1 /\ Len(store) = 1
                       /\ log[Len(log)] = "store" /\ Count(log, "judge") = 1)
    /\ pc # "Done" => (Count(log, "store") = 0 /\ store = <<>>)

\* C10: the stages are passed in the order GeneratingQuestions ... Done, none
\* entered twice; the generation request and the answerability request are
\* made once each, repair requests only inside a parsing stage, and a run
\* that returns has called the store once, after every LLM request.
C10_StagesInOrder == [][StageStep]_vars /\ []RequestsInOrder

\* a returned run with a repair in each parsing stage and two accepted items
C10_Witness ==
    /\ pc = "Done" /\ ret = 2
    /\ log = <<"generate", "repair", "judge", "repair", "store">>

(* --------------- frame of Ensember.from_discrete (C11) ---------------- *)
\* the dict objects the caller's lists hold
InputRefs == UNION {{inputs[k][i] : i \in DOMAIN inputs[k]} : k \in DOMAIN inputs}

\* C11: after a vote over two or more equal-length lists that all carry the
\* attribute, every dict of every list given, the first list's included, holds
\* what it held at the call, and no returned entry is one of the dicts given.
C11_InputsUntouched ==
    Voted =>
        /\ \A r \in InputRefs : heap[r] = heap0[r]
        /\ \A i \in DOMAIN result.value : result.value[i] \notin InputRefs

====
